---- MODULE Spec2Model ----
(***************************************************************************)
(* A model of spotifydb-engine (src/main.py): the DataLoader class (CSV    *)
(* load, add_index, sort, merge_df, load_to_db), db_engine,                *)
(* db_create_tables and the orchestrator main.                             *)
(*                                                                         *)
(* pandas and SQLAlchemy are modelled by the behaviour of the calls the    *)
(* source makes: DataFrame column assignment, set_index, sort_values with  *)
(* its default kind='quicksort' (order of equal keys unspecified), merge,  *)
(* to_sql with chunksize (one transaction around the chunk loop),          *)
(* MetaData.drop_all / create_all(checkfirst=True), Engine.connect.        *)
(*                                                                         *)
(* Cells are strings, integers or NaN; floating point columns are outside  *)
(* the model.                                                              *)
(***************************************************************************)
EXTENDS Integers, Sequences, FiniteSets, TLC

VARIABLES
    pc,          \* position of the running call / of main
    files,       \* the two CSV files on disk: [artists |-> csv, albums |-> csv]
    artist_df,   \* artist_loader.df (the loader a single call is made on)
    album_df,    \* album_loader.df (right_df of a single merge_df call)
    orig,        \* the loader's table when the call under test started
    ret,         \* value returned by the last DataLoader.sort call
    ret2,        \* value returned by sorting ret again
    call,        \* arguments of the call under test / last call made
    db,          \* the database: tables, and whether its storage engine is transactional
    sql,         \* progress of the running to_sql: phase, chunk index, snapshot
    inserts,     \* the INSERT statements executed so far, in order
    conn,        \* connection pool accounting of the engine
    steps,       \* steps of main completed in the current run, in order
    runs         \* runs of main started so far

vars == <<pc, files, artist_df, album_df, orig, ret, ret2, call, db, sql,
          inserts, conn, steps, runs>>

----------------------------------------------------------------------------
(* Bounds of the model *)

MaxRows == 3          \* rows of a table given to add_index, sort, merge_df
MaxArtistRows == 2    \* rows of the artists CSV in runs of main
MaxAlbumRows == 1     \* rows of the albums CSV in runs of main
MaxRuns == 2          \* sequential runs of main
MaxFullChunks == 2    \* full chunks of a bulk-loaded table
MaxRemainder == 2     \* rows beyond the last full chunk
MaxCalls == 3         \* db_create_tables calls made in a row
MaxSources == 2       \* source columns of a derived index

----------------------------------------------------------------------------
(* Cells *)

NaN == [k |-> "nan", v |-> 0]
StrCell(s) == [k |-> "str", v |-> s]
IntCell(n) == [k |-> "int", v |-> n]

IsNull(c) == c.k = "nan"

\* str(value) as numpy's astype(str) / Python's str give it
Str(c) == CASE c.k = "str" -> c.v
            [] c.k = "int" -> ToString(c.v)
            [] OTHER -> "nan"

\* The strings of the model in Python's str order (code point order)
StrOrder == <<"2001", "2002", "Abba", "Beck", "a1", "a2", "a3", "old">>

StrRank(s) == CHOOSE i \in 1..Len(StrOrder) : StrOrder[i] = s

\* a < b for two non-null cells of one column
CellLess(a, b) == IF a.k = "int" THEN a.v < b.v ELSE StrRank(a.v) < StrRank(b.v)

----------------------------------------------------------------------------
(* Sequences *)

Range(s) == {s[i] : i \in DOMAIN s}

SeqsUpTo(S, n) == UNION {[1..m -> S] : m \in 0..n}

Perms(n) == {p \in [1..n -> 1..n] : \A i, j \in 1..n : p[i] = p[j] => i = j}

IsPrefix(s, t) == Len(s) <= Len(t) /\ \A i \in 1..Len(s) : s[i] = t[i]

RECURSIVE Flatten(_)
Flatten(ss) == IF ss = <<>> THEN <<>> ELSE Head(ss) \o Flatten(Tail(ss))

Max(a, b) == IF a >= b THEN a ELSE b
Min(a, b) == IF a <= b THEN a ELSE b

----------------------------------------------------------------------------
(* DataFrame: columns, a row index (default RangeIndex) and rows *)

RangeIndex(n) == [i \in 1..n |-> IntCell(i - 1)]

DataFrame(columns, rows) ==
    [columns |-> columns, index_name |-> "", index |-> RangeIndex(Len(rows)),
     rows |-> rows]

\* pd.read_csv(filepath, header = 0)
ReadCsv(csv) == DataFrame(csv.columns, csv.rows)

NoFrame == DataFrame(<<>>, <<>>)

Column(df, c) == [i \in 1..Len(df.rows) |-> df.rows[i][c]]

DropName(cols, c) == SelectSeq(cols, LAMBDA x : x # c)

----------------------------------------------------------------------------
(* DataLoader.add_index *)

\* "-".join(row.values.astype(str)) over df[column_names]
RECURSIVE JoinRow(_, _)
JoinRow(row, column_names) ==
    IF column_names = <<>> THEN ""
    ELSE IF Len(column_names) = 1 THEN Str(row[Head(column_names)])
    ELSE Str(row[Head(column_names)]) \o "-" \o JoinRow(row, Tail(column_names))

\* df[index_name] = values: overwrite the column, or append a new one
SetColumn(df, name, values) ==
    [df EXCEPT
        !.columns = IF name \in Range(df.columns) THEN df.columns
                    ELSE Append(df.columns, name),
        !.rows = [i \in 1..Len(df.rows) |->
                    [c \in (DOMAIN df.rows[i]) \cup {name} |->
                        IF c = name THEN values[i] ELSE df.rows[i][c]]]]

\* df.set_index(name, inplace=True): the column becomes the row index and
\* leaves the columns (drop=True), the old index is discarded
SetIndexDropped(df, name) ==
    [columns |-> DropName(df.columns, name),
     index_name |-> name,
     index |-> Column(df, name),
     rows |-> [i \in 1..Len(df.rows) |->
                 [c \in (DOMAIN df.rows[i]) \ {name} |-> df.rows[i][c]]]]

\* a set_index that kept the column (drop=False)
SetIndexKept(df, name) ==
    [df EXCEPT !.index_name = name, !.index = Column(df, name)]

SetIndex(df, name) == SetIndexDropped(df, name)

add_index(df, index_name, column_names) ==
    SetIndex(SetColumn(df, index_name,
                       [i \in 1..Len(df.rows) |->
                            StrCell(JoinRow(df.rows[i], column_names))]),
             index_name)

----------------------------------------------------------------------------
(* DataLoader.sort *)

\* the rows of df taken in the order p, each with its index label
Take(df, p) ==
    [df EXCEPT !.rows = [i \in 1..Len(df.rows) |-> df.rows[p[i]]],
               !.index = [i \in 1..Len(df.rows) |-> df.index[p[i]]]]

\* p puts the non-null keys first in ascending order and the nulls last
\* (na_position='last'), the nulls among themselves in their original order
Ascending(df, column_name, p) ==
    \A i, j \in 1..Len(df.rows) :
        i < j =>
            LET a == df.rows[p[i]][column_name]
                b == df.rows[p[j]][column_name]
            IN  /\ IsNull(a) => IsNull(b)
                /\ (~IsNull(a) /\ ~IsNull(b)) => ~CellLess(b, a)
                /\ (IsNull(a) /\ IsNull(b)) => p[i] < p[j]

\* the orders kind='quicksort', the default, can produce: ascending, with
\* equal keys in any order
QuicksortOrders(df, column_name) ==
    {p \in Perms(Len(df.rows)) : Ascending(df, column_name, p)}

\* an ordering that is not by the column at all
AnyOrders(df, column_name) == Perms(Len(df.rows))

SortOrders(df, column_name) == QuicksortOrders(df, column_name)

\* df.sort_values(column_name, axis = 0, ascending = True, inplace = False):
\* the results the call can return
sort_values(df, column_name) ==
    {Take(df, p) : p \in SortOrders(df, column_name)}

\* a sort in place
SelfSorted(df, sorted) == sorted

\* what self.df is after DataLoader.sort returned `sorted`: inplace = False
\* leaves it as it was
SelfAfterSort(df, sorted) == df

----------------------------------------------------------------------------
(* DataLoader.merge_df *)

\* total order of the keys of a join, nulls last
KeyLess(a, b) == IF IsNull(a) THEN FALSE
                 ELSE IF IsNull(b) THEN TRUE
                 ELSE CellLess(a, b)

SortedKeys(K) ==
    [i \in 1..Cardinality(K) |->
        CHOOSE k \in K : Cardinality({x \in K : KeyLess(x, k)}) = i - 1]

\* indices of the rows of df whose key column holds k, ascending
\* (null keys match null keys)
Matches(df, on, k) ==
    SelectSeq([j \in 1..Len(df.rows) |-> j], LAMBDA j : df.rows[j][on] = k)

Keys(df, on) == {df.rows[i][on] : i \in 1..Len(df.rows)}

\* left-major product of two index sequences; 0 stands for "no row"
Product(ls, rs) ==
    Flatten([i \in 1..Len(ls) |-> [j \in 1..Len(rs) |-> <<ls[i], rs[j]>>]])

\* a join that drops the rows without a match
DropUnmatched(s) == s

\* the rows of one side for a key: "no row" when the side has none, so that
\* the other side's rows are kept
OrZero(s) == IF s = <<>> THEN <<0>> ELSE s

\* the (left row, right row) pairs of the join, in result order
JoinPairs(left, right, left_on, right_on, how) ==
    CASE how = "inner" ->
            Flatten([i \in 1..Len(left.rows) |->
                Product(<<i>>, Matches(right, right_on, left.rows[i][left_on]))])
      [] how = "left" ->
            Flatten([i \in 1..Len(left.rows) |->
                Product(<<i>>, OrZero(Matches(right, right_on, left.rows[i][left_on])))])
      [] how = "right" ->
            Flatten([j \in 1..Len(right.rows) |->
                Product(OrZero(Matches(left, left_on, right.rows[j][right_on])), <<j>>)])
      [] OTHER ->
            LET ks == SortedKeys(Keys(left, left_on) \cup Keys(right, right_on))
            IN  Flatten([n \in 1..Len(ks) |->
                    Product(OrZero(Matches(left, left_on, ks[n])),
                            OrZero(Matches(right, right_on, ks[n])))])

\* column names both tables have get suffixes _x / _y; a key column of one
\* name on both sides is a single column
Overlap(left, right, left_on, right_on) ==
    (Range(left.columns) \cap Range(right.columns))
        \ (IF left_on = right_on THEN {left_on} ELSE {})

LeftName(left, right, left_on, right_on, c) ==
    IF c \in Overlap(left, right, left_on, right_on) THEN c \o "_x" ELSE c

RightName(left, right, left_on, right_on, c) ==
    IF c \in Overlap(left, right, left_on, right_on) THEN c \o "_y" ELSE c

RightKept(right, left_on, right_on) ==
    IF left_on = right_on THEN DropName(right.columns, right_on) ELSE right.columns

MergedColumns(left, right, left_on, right_on) ==
    [i \in 1..Len(left.columns) |->
        LeftName(left, right, left_on, right_on, left.columns[i])]
    \o [i \in 1..Len(RightKept(right, left_on, right_on)) |->
        RightName(left, right, left_on, right_on,
                  RightKept(right, left_on, right_on)[i])]

\* the result row of a pair; the side without a row is filled with NaN
MergedRow(left, right, left_on, right_on, pair) ==
    LET li == pair[1]
        ri == pair[2]
        lpart == [n \in {LeftName(left, right, left_on, right_on, c) :
                            c \in Range(left.columns)} |->
                    LET c == CHOOSE c \in Range(left.columns) :
                                LeftName(left, right, left_on, right_on, c) = n
                    IN  IF li # 0 THEN left.rows[li][c]
                        ELSE IF c = left_on /\ left_on = right_on
                             THEN right.rows[ri][right_on]
                        ELSE NaN]
        rpart == [n \in {RightName(left, right, left_on, right_on, c) :
                            c \in Range(RightKept(right, left_on, right_on))} |->
                    LET c == CHOOSE c \in Range(right.columns) :
                                RightName(left, right, left_on, right_on, c) = n
                    IN  IF ri # 0 THEN right.rows[ri][c] ELSE NaN]
    IN  lpart @@ rpart

\* pd.merge(left=, right=, left_on=, right_on=, how=)
merge(left, right, left_on, right_on, how) ==
    LET pairs == JoinPairs(left, right, left_on, right_on, how)
    IN  DataFrame(MergedColumns(left, right, left_on, right_on),
                  [n \in 1..Len(pairs) |->
                      MergedRow(left, right, left_on, right_on, pairs[n])])

----------------------------------------------------------------------------
(* The tables the calls are made on *)

ArtistColumns == <<"id", "name", "followers">>
AlbumColumns == <<"id", "artist_id", "name", "release_date">>

Artist(id, name, followers) == [id |-> id, name |-> name, followers |-> followers]
Album(id, artist_id, name, release_date) ==
    [id |-> id, artist_id |-> artist_id, name |-> name, release_date |-> release_date]

\* two artists of one name, one without a name, names not in id order
ArtistRows ==
    { Artist(StrCell("a1"), StrCell("Beck"), IntCell(7)),
      Artist(StrCell("a2"), StrCell("Abba"), IntCell(5)),
      Artist(StrCell("a3"), StrCell("Abba"), IntCell(7)),
      Artist(StrCell("a2"), NaN, IntCell(5)) }

\* albums of a1, of a3, and one whose artist is unknown
AlbumRows ==
    { Album(StrCell("a1"), StrCell("a1"), StrCell("Abba"), StrCell("2001")),
      Album(StrCell("a2"), StrCell("a1"), StrCell("Beck"), StrCell("2002")),
      Album(StrCell("a3"), NaN, StrCell("Beck"), StrCell("2001")) }

\* the rows of the left tables of merge_df: artists a1 and a2
MergeRows ==
    { Artist(StrCell("a1"), StrCell("Beck"), IntCell(7)),
      Artist(StrCell("a2"), StrCell("Abba"), IntCell(5)) }

Csv(columns, rows) == [columns |-> columns, rows |-> rows]

NoFiles == [artists |-> Csv(<<>>, <<>>), albums |-> Csv(<<>>, <<>>)]
NoCall == [op |-> "none"]
NoDb == [transactional |-> TRUE,
         tables |-> [t \in {"artists", "albums"} |->
                        [exists |-> FALSE, columns |-> {}, pk |-> "", rows |-> <<>>]]]
SqlIdle == [phase |-> "idle", i |-> 0, saved |-> <<>>]
NoConn == [engine |-> FALSE, acquired |-> 0, checked_out |-> 0, open |-> 0]

\* what add_index, sort and merge_df never touch
TransformerFrame ==
    /\ files = NoFiles
    /\ db = NoDb
    /\ sql = SqlIdle
    /\ inserts = <<>>
    /\ conn = NoConn
    /\ steps = <<>>
    /\ runs = 0

UnchangedBackend == UNCHANGED <<files, db, sql, inserts, conn, steps, runs>>

----------------------------------------------------------------------------
(* Calls of DataLoader.add_index on a loaded table *)

InitIndex ==
    /\ pc = "ready"
    /\ \E rows \in SeqsUpTo(ArtistRows, MaxRows) :
          artist_df = ReadCsv(Csv(ArtistColumns, rows))
    /\ album_df = NoFrame
    /\ orig = artist_df
    /\ ret = NoFrame
    /\ ret2 = NoFrame
    /\ call = NoCall
    /\ TransformerFrame

AddIndexCall ==
    /\ pc = "ready"
    /\ \E index_name \in {"index", "name"},
          column_names \in SeqsUpTo(Range(artist_df.columns), MaxSources) :
          /\ artist_df' = add_index(artist_df, index_name, column_names)
          /\ call' = [op |-> "add_index", index_name |-> index_name,
                      column_names |-> column_names]
    /\ pc' = "returned"
    /\ UNCHANGED <<album_df, orig, ret, ret2>>
    /\ UnchangedBackend

\* df[column_names] raises KeyError for a column the table lacks
AddIndexRaise ==
    /\ pc = "ready"
    /\ \E column_names \in SeqsUpTo(Range(artist_df.columns) \cup {"uri"}, MaxSources) :
          /\ ~(Range(column_names) \subseteq Range(artist_df.columns))
          /\ call' = [op |-> "add_index", index_name |-> "index",
                      column_names |-> column_names]
    /\ pc' = "raised"
    /\ UNCHANGED <<artist_df, album_df, orig, ret, ret2>>
    /\ UnchangedBackend

NextIndex == AddIndexCall \/ AddIndexRaise

SpecIndex == InitIndex /\ [][NextIndex]_vars

----------------------------------------------------------------------------
(* Calls of DataLoader.sort, and of sort on the table it returned *)

InitSort == InitIndex

SortCall ==
    /\ pc = "ready"
    /\ \E column_name \in Range(artist_df.columns) :
          /\ ret' \in sort_values(artist_df, column_name)
          /\ call' = [op |-> "sort", column_name |-> column_name]
    /\ artist_df' = SelfAfterSort(artist_df, ret')
    /\ pc' = "sorted"
    /\ UNCHANGED <<album_df, orig, ret2>>
    /\ UnchangedBackend

\* DataLoader.sort on a loader that holds the returned table
ResortCall ==
    /\ pc = "sorted"
    /\ ret2' \in sort_values(ret, call.column_name)
    /\ pc' = "resorted"
    /\ UNCHANGED <<artist_df, album_df, orig, ret, call>>
    /\ UnchangedBackend

\* sort_values raises KeyError for a column the table lacks
SortRaise ==
    /\ pc = "ready"
    /\ \E column_name \in {"uri"} \ Range(artist_df.columns) :
          call' = [op |-> "sort", column_name |-> column_name]
    /\ pc' = "raised"
    /\ UNCHANGED <<artist_df, album_df, orig, ret, ret2>>
    /\ UnchangedBackend

NextSort == SortCall \/ ResortCall \/ SortRaise

SpecSort == InitSort /\ [][NextSort]_vars

----------------------------------------------------------------------------
(* Calls of DataLoader.merge_df, as merged_artist_album makes them *)

InitMerge ==
    /\ pc = "ready"
    /\ \E rows \in SeqsUpTo(MergeRows, MaxRows) :
          artist_df = ReadCsv(Csv(ArtistColumns, rows))
    /\ \E rows \in SeqsUpTo(AlbumRows, MaxRows) :
          album_df = ReadCsv(Csv(AlbumColumns, rows))
    /\ orig = artist_df
    /\ ret = NoFrame
    /\ ret2 = NoFrame
    /\ call = NoCall
    /\ TransformerFrame

MergeCall ==
    /\ pc = "ready"
    /\ \E how \in {"inner", "outer", "left", "right"},
          on \in {<<"id", "artist_id">>, <<"id", "id">>} :
          /\ artist_df' = merge(artist_df, album_df, on[1], on[2], how)
          /\ call' = [op |-> "merge_df", left_on |-> on[1], right_on |-> on[2],
                      how |-> how]
    /\ pc' = "returned"
    /\ UNCHANGED <<album_df, orig, ret, ret2>>
    /\ UnchangedBackend

NextMerge == MergeCall

SpecMerge == InitMerge /\ [][NextMerge]_vars

----------------------------------------------------------------------------
(* The database: db_create_tables *)

ChunkSize == 2000

TableNames == {"artists", "albums"}

\* the two tables db_create_tables declares
ArtistsSchema ==
    [columns |-> {"index", "artist_popularity", "followers", "genres", "id", "name",
                  "track_id", "track_name_prev", "type"},
     pk |-> "id"]

AlbumsSchema ==
    [columns |-> {"index", "album_type", "artist_id", "available_markets",
                  "external_urls", "href", "id", "images", "name", "release_date",
                  "release_date_precision", "total_tracks", "track_id",
                  "track_name_prev", "uri", "type"},
     pk |-> "id"]

Declared(t) == IF t = "artists" THEN ArtistsSchema ELSE AlbumsSchema

Absent == [exists |-> FALSE, columns |-> {}, pk |-> "", rows |-> <<>>]

Created(schema) ==
    [exists |-> TRUE, columns |-> schema.columns, pk |-> schema.pk, rows |-> <<>>]

\* meta.drop_all(): DROP TABLE for each declared table that exists
drop_all(tables) == [t \in TableNames |-> Absent]

\* a create_all that does not check first and replaces what exists
create_replacing(tables) == [t \in TableNames |-> Created(Declared(t))]

\* meta.create_all(checkfirst=True): CREATE TABLE for each declared table
\* that does not exist; an existing table is left as it is, whatever its schema
create_all(tables) ==
    [t \in TableNames |->
        IF tables[t].exists THEN tables[t] ELSE Created(Declared(t))]

db_create_tables(tables, drop_first) ==
    create_all(IF drop_first THEN drop_all(tables) ELSE tables)

----------------------------------------------------------------------------
(* The engine's connections: db_engine *)

\* a connection is checked out of the engine's pool, which opens one when
\* it holds no idle one
Checkout(c) ==
    [c EXCEPT !.acquired = @ + 1,
              !.checked_out = @ + 1,
              !.open = IF c.open > c.checked_out THEN c.open ELSE c.open + 1]

\* a connection goes back to the pool, which keeps it open
Release(c) == [c EXCEPT !.checked_out = @ - 1]

\* a call that checks a connection out and gives it back when it ends
Scoped(c) == Release(Checkout(c))

\* create_engine(...): an engine whose pool holds no connection yet
NewEngine == [engine |-> TRUE, acquired |-> 0, checked_out |-> 0, open |-> 0]

\* create_engine(...); conn = engine.connect(); return engine: the connection
\* is never closed. When the local name goes out of scope the handle is
\* reclaimed at once (reference counting) or not before the run ends
\* (a tracing collector): either way the pool keeps the connection open.
db_engine_outcomes ==
    LET c == Checkout(NewEngine)
    IN  {c, Release(c)}

----------------------------------------------------------------------------
(* DataLoader.load_to_db: DataFrame.to_sql(if_exists='append',               *)
(* chunksize=2000, index=False)                                              *)

\* index=False: the rows' columns are written, the row index is not
ToSqlRows(df) == df.rows

\* the chunk loop of to_sql:
\*   chunks = nrows // chunksize + 1
\*   for i in range(chunks):
\*       start_i = i * chunksize; end_i = min((i + 1) * chunksize, nrows)
\*       if start_i >= end_i: break
\*       INSERT rows[start_i:end_i]
NumChunks(nrows) == (nrows \div ChunkSize) + 1
StartOf(i) == i * ChunkSize

\* an end that takes one row too few
EndShort(i, nrows) == Min((i + 1) * ChunkSize - 1, nrows)

EndOf(i, nrows) == Min((i + 1) * ChunkSize, nrows)

HasChunk(i, nrows) == i < NumChunks(nrows) /\ StartOf(i) < EndOf(i, nrows)

Chunk(rows, i) == SubSeq(rows, StartOf(i) + 1, EndOf(i, Len(rows)))

\* the destination refuses the statement: a column the table lacks, or a
\* primary key value that is missing or already there
Rejected(table, columns, chunk) ==
    \/ ~(Range(columns) \subseteq table.columns)
    \/ /\ table.pk # ""
       /\ \/ table.pk \notin Range(columns)
          \/ Cardinality({r[table.pk] : r \in Range(table.rows) \cup Range(chunk)})
                < Len(table.rows) + Len(chunk)

\* if_exists='append' on a table that does not exist creates it from the frame
Inferred(df) ==
    [exists |-> TRUE, columns |-> Range(df.columns), pk |-> "", rows |-> <<>>]

\* the loader and the destination of the load_to_db call at pc
Loading == pc \in {"load_to_db_artists", "load_to_db_albums"}
Frame == IF pc = "load_to_db_artists" THEN artist_df ELSE album_df
Dest == IF pc = "load_to_db_artists" THEN "artists" ELSE "albums"

\* a rollback that never undoes anything
NoRollback(transactional, saved, rows) == rows

\* what remains of the destination's rows when the transaction around the
\* chunk loop is rolled back: the rows from before it on a transactional
\* storage engine, all rows inserted so far on one without transactions
AfterRollback(transactional, saved, rows) == IF transactional THEN saved ELSE rows

----------------------------------------------------------------------------
(* main: the steps in the order main makes them *)

MainOrder ==
    <<"load_artists_csv", "load_albums_csv", "head_artists", "head_albums",
      "add_index", "sort", "db_engine", "db_create_tables",
      "load_to_db_artists", "load_to_db_albums">>

Position(step) == CHOOSE n \in 1..Len(MainOrder) : MainOrder[n] = step

\* an order that loads the tables before the schema is applied
NextStepLoadFirst(step) ==
    CASE step = "db_engine" -> "load_to_db_artists"
      [] step = "load_to_db_artists" -> "db_create_tables"
      [] step = "db_create_tables" -> "load_to_db_albums"
      [] step = "load_to_db_albums" -> "done"
      [] OTHER -> MainOrder[Position(step) + 1]

\* the statement after `step` in main
NextStep(step) ==
    IF Position(step) = Len(MainOrder) THEN "done"
    ELSE MainOrder[Position(step) + 1]

\* where control goes when `step` returns: on in main, back to the caller
\* when the call was made on its own
After(step) == IF call.op = "main" THEN NextStep(step) ELSE "returned"

Completes(step) ==
    /\ pc = step
    /\ pc' = After(step)
    /\ steps' = Append(steps, step)

\* a main that passes drop_first = False
MainKeepTables == FALSE

\* the drop_first main passes to db_create_tables
MainDropFirst == TRUE

\* artist_loader = DataLoader('./data/spotify_artists.csv', index = 'id')
LoadArtistsCsv ==
    /\ Completes("load_artists_csv")
    /\ artist_df' = ReadCsv(files.artists)
    /\ UNCHANGED <<files, album_df, orig, ret, ret2, call, db, sql, inserts, conn, runs>>

\* album_loader = DataLoader('./data/spotify_albums.csv')
LoadAlbumsCsv ==
    /\ Completes("load_albums_csv")
    /\ album_df' = ReadCsv(files.albums)
    /\ UNCHANGED <<files, artist_df, orig, ret, ret2, call, db, sql, inserts, conn, runs>>

\* artist_loader.head(): prints, changes nothing
HeadArtists ==
    /\ Completes("head_artists")
    /\ UNCHANGED <<files, artist_df, album_df, orig, ret, ret2, call, db, sql, inserts,
                   conn, runs>>

\* album_loader.head()
HeadAlbums ==
    /\ Completes("head_albums")
    /\ UNCHANGED <<files, artist_df, album_df, orig, ret, ret2, call, db, sql, inserts,
                   conn, runs>>

\* album_loader.add_index('index', ['artist_id','name','release_date'])
AddIndexStep ==
    /\ Completes("add_index")
    /\ album_df' = add_index(album_df, "index", <<"artist_id", "name", "release_date">>)
    /\ UNCHANGED <<files, artist_df, orig, ret, ret2, call, db, sql, inserts, conn, runs>>

\* artist_loader.sort('name'): the returned table is dropped
SortStep ==
    /\ Completes("sort")
    /\ \E sorted \in sort_values(artist_df, "name") :
          artist_df' = SelfAfterSort(artist_df, sorted)
    /\ UNCHANGED <<files, album_df, orig, ret, ret2, call, db, sql, inserts, conn, runs>>

\* engine = db_engine('127.0.0.1:3306', 'root', 'mysql')
DbEngineStep ==
    /\ Completes("db_engine")
    /\ conn' \in db_engine_outcomes
    /\ UNCHANGED <<files, artist_df, album_df, orig, ret, ret2, call, db, sql, inserts,
                   runs>>

\* db_create_tables(engine, drop_first = True): drop_all and create_all each
\* run on a connection of their own
DbCreateTablesStep ==
    /\ Completes("db_create_tables")
    /\ db' = [db EXCEPT !.tables = db_create_tables(db.tables, MainDropFirst)]
    /\ conn' = Scoped(Scoped(conn))
    /\ UNCHANGED <<files, artist_df, album_df, orig, ret, ret2, call, sql, inserts, runs>>

\* db_create_tables raises after drop_all and before create_all
DbCreateTablesRaise ==
    /\ pc = "db_create_tables"
    /\ call.op = "main"
    /\ MainDropFirst
    /\ db' = [db EXCEPT !.tables = drop_all(db.tables)]
    /\ conn' = Scoped(conn)
    /\ pc' = "failed"
    /\ steps' = Append(steps, "raised")
    /\ UNCHANGED <<files, artist_df, album_df, orig, ret, ret2, call, sql, inserts, runs>>

\* to_sql starts: the destination is created from the frame if it does not
\* exist, and one transaction is begun for all chunks
ToSqlBegin ==
    /\ Loading
    /\ sql.phase = "idle"
    /\ conn' = Checkout(conn)
    /\ db' = [db EXCEPT !.tables[Dest] = IF @.exists THEN @ ELSE Inferred(Frame)]
    /\ sql' = [phase |-> "insert", i |-> 0, saved |-> db'.tables[Dest].rows]
    /\ UNCHANGED <<pc, files, artist_df, album_df, orig, ret, ret2, call, inserts,
                   steps, runs>>

\* one INSERT statement with the next chunk of rows
ToSqlInsertChunk ==
    /\ Loading
    /\ sql.phase = "insert"
    /\ HasChunk(sql.i, Len(ToSqlRows(Frame)))
    /\ LET chunk == Chunk(ToSqlRows(Frame), sql.i)
       IN  /\ ~Rejected(db.tables[Dest], Frame.columns, chunk)
           /\ db' = [db EXCEPT !.tables[Dest].rows = @ \o chunk]
           /\ inserts' = Append(inserts, [table |-> Dest, rows |-> chunk])
    /\ sql' = [sql EXCEPT !.i = @ + 1]
    /\ UNCHANGED <<pc, files, artist_df, album_df, orig, ret, ret2, call, conn,
                   steps, runs>>

\* the loop is over: the transaction commits and to_sql returns
ToSqlCommit ==
    /\ Loading
    /\ sql.phase = "insert"
    /\ ~HasChunk(sql.i, Len(ToSqlRows(Frame)))
    /\ Completes(pc)
    /\ sql' = [sql EXCEPT !.phase = "idle"]
    /\ conn' = Release(conn)
    /\ UNCHANGED <<files, artist_df, album_df, orig, ret, ret2, call, db, inserts, runs>>

\* the next INSERT raises (refused by the destination, or the connection is
\* lost): the transaction is rolled back and the error leaves to_sql
ToSqlFail ==
    /\ Loading
    /\ sql.phase = "insert"
    /\ HasChunk(sql.i, Len(ToSqlRows(Frame)))
    /\ db' = [db EXCEPT !.tables[Dest].rows =
                  AfterRollback(db.transactional, sql.saved, @)]
    /\ sql' = [sql EXCEPT !.phase = "aborted"]
    /\ conn' = Release(conn)
    /\ pc' = "failed"
    /\ steps' = Append(steps, "raised")
    /\ UNCHANGED <<files, artist_df, album_df, orig, ret, ret2, call, inserts, runs>>

\* a step raises before it changed anything (a file that cannot be read, a
\* column that is not there, a database that cannot be reached); nothing in
\* main catches it
Raise ==
    /\ pc \in Range(MainOrder)
    /\ call.op = "main"
    /\ sql.phase = "idle"
    /\ pc' = "failed"
    /\ steps' = Append(steps, "raised")
    /\ UNCHANGED <<files, artist_df, album_df, orig, ret, ret2, call, db, sql, inserts,
                   conn, runs>>

\* the operator runs main again: a new process, the same files and database
Rerun ==
    /\ pc \in {"done", "failed"}
    /\ call.op = "main"
    /\ runs < MaxRuns
    /\ runs' = runs + 1
    /\ pc' = MainOrder[1]
    /\ steps' = <<>>
    /\ artist_df' = NoFrame
    /\ album_df' = NoFrame
    /\ sql' = SqlIdle
    /\ inserts' = <<>>
    /\ conn' = NoConn
    /\ call' = [call EXCEPT !.completed = IF pc = "done" THEN @ + 1 ELSE @]
    /\ UNCHANGED <<files, orig, ret, ret2, db>>

\* the states of a table main may find in the database
OldRow == [id |-> StrCell("old")]
LegacyTable ==
    [exists |-> TRUE, columns |-> {"legacy"}, pk |-> "",
     rows |-> <<[legacy |-> StrCell("old")]>>]
WithRows(table, rows) == [table EXCEPT !.rows = rows]

TableStates(t) ==
    {Absent, Created(Declared(t)), WithRows(Created(Declared(t)), <<OldRow>>),
     LegacyTable, WithRows(LegacyTable, <<>>)}

InitMain ==
    /\ pc = MainOrder[1]
    /\ \E a \in SeqsUpTo(ArtistRows, MaxArtistRows), b \in SeqsUpTo(AlbumRows, MaxAlbumRows) :
          files = [artists |-> Csv(ArtistColumns, a), albums |-> Csv(AlbumColumns, b)]
    /\ artist_df = NoFrame
    /\ album_df = NoFrame
    /\ orig = NoFrame
    /\ ret = NoFrame
    /\ ret2 = NoFrame
    /\ call = [op |-> "main", completed |-> 0]
    /\ \E transactional \in BOOLEAN,
          tables \in {[t \in TableNames |-> Absent],
                      [t \in TableNames |-> WithRows(Created(Declared(t)), <<OldRow>>)],
                      [t \in TableNames |-> LegacyTable]} :
          db = [transactional |-> transactional, tables |-> tables]
    /\ sql = SqlIdle
    /\ inserts = <<>>
    /\ conn = NoConn
    /\ steps = <<>>
    /\ runs = 1

NextMain ==
    \/ LoadArtistsCsv \/ LoadAlbumsCsv \/ HeadArtists \/ HeadAlbums
    \/ AddIndexStep \/ SortStep \/ DbEngineStep
    \/ DbCreateTablesStep \/ DbCreateTablesRaise
    \/ ToSqlBegin \/ ToSqlInsertChunk \/ ToSqlCommit \/ ToSqlFail
    \/ Raise \/ Rerun

SpecMain == InitMain /\ [][NextMain]_vars

----------------------------------------------------------------------------
(* Calls of DataLoader.load_to_db on a table of many rows *)

\* row n of the loaded table
BulkRow(n) == [id |-> IntCell(n)]

\* numbers of rows around the chunk boundaries
LoadSizes ==
    {q * ChunkSize + r : q \in 0..MaxFullChunks,
                         r \in (0..MaxRemainder) \cup {ChunkSize \div 4, ChunkSize - 1}}

InitLoad ==
    /\ pc = "load_to_db_artists"
    /\ files = NoFiles
    /\ \E n \in LoadSizes : artist_df = DataFrame(<<"id">>, [i \in 1..n |-> BulkRow(i)])
    /\ album_df = NoFrame
    /\ \E transactional \in BOOLEAN, artists \in TableStates("artists") :
          db = [transactional |-> transactional,
                tables |-> [t \in TableNames |-> IF t = "artists" THEN artists ELSE Absent]]
    /\ orig = db
    /\ ret = NoFrame
    /\ ret2 = NoFrame
    /\ call = [op |-> "load_to_db", db_table_name |-> "artists"]
    /\ sql = SqlIdle
    /\ inserts = <<>>
    /\ conn = NewEngine
    /\ steps = <<>>
    /\ runs = 0

NextLoad == ToSqlBegin \/ ToSqlInsertChunk \/ ToSqlCommit \/ ToSqlFail

SpecLoad == InitLoad /\ [][NextLoad]_vars

----------------------------------------------------------------------------
(* Calls of db_create_tables, one after another *)

InitSchema ==
    /\ pc = "db_create_tables"
    /\ files = NoFiles
    /\ artist_df = NoFrame
    /\ album_df = NoFrame
    /\ \E transactional \in BOOLEAN, artists \in TableStates("artists"),
          albums \in TableStates("albums") :
          db = [transactional |-> transactional,
                tables |-> [t \in TableNames |-> IF t = "artists" THEN artists ELSE albums]]
    /\ orig = db
    /\ ret = NoFrame
    /\ ret2 = NoFrame
    /\ call = [op |-> "db_create_tables", drop_first |-> <<>>]
    /\ sql = SqlIdle
    /\ inserts = <<>>
    /\ conn = NewEngine
    /\ steps = <<>>
    /\ runs = 0

\* db_create_tables(engine, drop_first); orig is the database before the
\* call, call.drop_first the arguments of the calls made so far
DbCreateTablesCall ==
    /\ pc = "db_create_tables"
    /\ Len(call.drop_first) < MaxCalls
    /\ \E drop_first \in BOOLEAN :
          /\ db' = [db EXCEPT !.tables = db_create_tables(db.tables, drop_first)]
          /\ call' = [call EXCEPT !.drop_first = Append(@, drop_first)]
          /\ conn' = IF drop_first THEN Scoped(Scoped(conn)) ELSE Scoped(conn)
    /\ orig' = db
    /\ UNCHANGED <<pc, files, artist_df, album_df, ret, ret2, sql, inserts, steps, runs>>

NextSchema == DbCreateTablesCall

SpecSchema == InitSchema /\ [][NextSchema]_vars

----------------------------------------------------------------------------
(* Properties of the transformer *)

RECURSIVE Dashed(_)
Dashed(strs) == IF strs = <<>> THEN ""
                ELSE IF Len(strs) = 1 THEN strs[1]
                ELSE strs[1] \o "-" \o Dashed(Tail(strs))

\* the derived value of a row: its source cells' string forms, "-"-joined
Derived(row, column_names) ==
    StrCell(Dashed([n \in 1..Len(column_names) |-> Str(row[column_names[n]])]))

IndexReturned == pc = "returned" /\ call.op = "add_index"

\* C6 as stated: add_index keeps the number of rows and yields exactly one
\* more column than the table had, holding in every row the "-"-join of the
\* source columns' string forms.
C6_OneMoreColumn ==
    IndexReturned =>
        /\ Len(artist_df.rows) = Len(orig.rows)
        /\ Len(artist_df.columns) = Len(orig.columns) + 1
        /\ call.index_name \in Range(artist_df.columns)
        /\ \A i \in 1..Len(orig.rows) :
              artist_df.rows[i][call.index_name] = Derived(orig.rows[i], call.column_names)

\* C6 amended: add_index keeps the number of rows and the rows' other cells,
\* and puts the "-"-join of the source columns' string forms into the row
\* index named index_name, not into a column: the columns are those of the
\* table without index_name, so none is added, and one is lost when
\* index_name named a column.
C6_DerivedRowIndex ==
    IndexReturned =>
        /\ Len(artist_df.rows) = Len(orig.rows)
        /\ artist_df.columns = DropName(orig.columns, call.index_name)
        /\ Len(artist_df.columns) =
              Len(orig.columns) - (IF call.index_name \in Range(orig.columns) THEN 1 ELSE 0)
        /\ artist_df.index_name = call.index_name
        /\ Len(artist_df.index) = Len(orig.rows)
        /\ \A i \in 1..Len(orig.rows) :
              /\ artist_df.index[i] = Derived(orig.rows[i], call.column_names)
              /\ DOMAIN artist_df.rows[i] = Range(artist_df.columns)
              /\ \A c \in Range(artist_df.columns) :
                    artist_df.rows[i][c] = orig.rows[i][c]

\* an index derived from a text, a number and a null: "Abba-7-nan" style values
C6_Witness ==
    /\ IndexReturned
    /\ call.index_name = "index"
    /\ call.column_names = <<"name", "followers">>
    /\ Len(artist_df.rows) = 3
    /\ artist_df.index[1] = StrCell("Abba-7")
    /\ artist_df.index[2] = StrCell("nan-5")

SortReturned == pc \in {"sorted", "resorted"}

IsAscending(df, column_name) ==
    \A i, j \in 1..Len(df.rows) :
        i < j =>
            /\ IsNull(df.rows[i][column_name]) => IsNull(df.rows[j][column_name])
            /\ (~IsNull(df.rows[i][column_name]) /\ ~IsNull(df.rows[j][column_name]))
                  => ~CellLess(df.rows[j][column_name], df.rows[i][column_name])

\* the rows of b, each with its index label, are those of a in some order
IsReordering(a, b) ==
    /\ b.columns = a.columns
    /\ Len(b.rows) = Len(a.rows)
    /\ \E p \in Perms(Len(a.rows)) :
          \A i \in 1..Len(a.rows) :
              b.rows[i] = a.rows[p[i]] /\ b.index[i] = a.index[p[i]]

\* the default RangeIndex labels say where each row came from
TiesInOrder(df, column_name) ==
    \A i, j \in 1..Len(df.rows) :
        (i < j /\ df.rows[i][column_name] = df.rows[j][column_name])
            => df.index[i].v < df.index[j].v

OuterReturned == pc = "returned" /\ call.op = "merge_df" /\ call.how = "outer"

LeftAppears(i) ==
    \E n \in 1..Len(artist_df.rows) :
        \A c \in Range(orig.columns) :
            artist_df.rows[n][LeftName(orig, album_df, call.left_on, call.right_on, c)]
                = orig.rows[i][c]

RightAppears(j) ==
    \E n \in 1..Len(artist_df.rows) :
        \A c \in Range(album_df.columns) :
            artist_df.rows[n][IF c = call.right_on /\ call.left_on = call.right_on
                              THEN c
                              ELSE RightName(orig, album_df, call.left_on, call.right_on, c)]
                = album_df.rows[j][c]

EveryRowAppears ==
    /\ \A i \in 1..Len(orig.rows) : LeftAppears(i)
    /\ \A j \in 1..Len(album_df.rows) : RightAppears(j)

Count(df, on, k) == Cardinality({i \in 1..Len(df.rows) : df.rows[i][on] = k})

\* no key value occurs several times in both tables
KeysUniqueOnOneSide ==
    \A k \in Keys(orig, call.left_on) \cup Keys(album_df, call.right_on) :
        Count(orig, call.left_on, k) <= 1 \/ Count(album_df, call.right_on, k) <= 1

\* C8 as stated: an outer merge holds every row of both tables at least once
\* and has at least max(|left|, |right|) and at most |left| + |right| rows,
\* also when a key value occurs several times on both sides.
C8_AtMostSum ==
    OuterReturned =>
        /\ EveryRowAppears
        /\ Len(artist_df.rows) >= Max(Len(orig.rows), Len(album_df.rows))
        /\ Len(artist_df.rows) <= Len(orig.rows) + Len(album_df.rows)

\* C8 amended: an outer merge holds every row of both tables at least once
\* and has at least max(|left|, |right|) rows; it has at most
\* |left| + |right| rows when no key value occurs several times on both
\* sides, and at most max(|left| + |right|, |left| * |right|) rows in general.
C8_OuterBounds ==
    OuterReturned =>
        /\ EveryRowAppears
        /\ Len(artist_df.rows) >= Max(Len(orig.rows), Len(album_df.rows))
        /\ Len(artist_df.rows) <= Max(Len(orig.rows) + Len(album_df.rows),
                                      Len(orig.rows) * Len(album_df.rows))
        /\ KeysUniqueOnOneSide =>
              Len(artist_df.rows) <= Len(orig.rows) + Len(album_df.rows)

\* artists a1, a2 merged with two albums of a1 and one of an unknown artist:
\* a1 twice, a2 unmatched, the unknown album unmatched
C8_Witness ==
    /\ OuterReturned
    /\ call.right_on = "artist_id"
    /\ Len(orig.rows) = 2
    /\ Len(album_df.rows) = 3
    /\ Len(artist_df.rows) = 4
    /\ \E n \in 1..4 : IsNull(artist_df.rows[n].followers)
    /\ \E n \in 1..4 : IsNull(artist_df.rows[n].artist_id)

----------------------------------------------------------------------------
(* Properties of the bulk loader *)

LoadReturned == pc = "returned" /\ call.op = "load_to_db"

InsertedRows(table) ==
    Flatten([k \in 1..Len(inserts) |->
                IF inserts[k].table = table THEN inserts[k].rows ELSE <<>>])

\* C1: a load of n rows issues ceil(n / 2000) INSERT statements of at most
\* 2000 rows, all but the last of exactly 2000, the rows in table order, and
\* the destination ends with its earlier rows followed by the n rows.
C1_Batches ==
    LoadReturned =>
        LET n == Len(artist_df.rows)
        IN  /\ Len(inserts) = (n + ChunkSize - 1) \div ChunkSize
            /\ \A k \in 1..Len(inserts) :
                  /\ inserts[k].table = call.db_table_name
                  /\ Len(inserts[k].rows) >= 1
                  /\ Len(inserts[k].rows) <= ChunkSize
                  /\ k < Len(inserts) => Len(inserts[k].rows) = ChunkSize
            /\ InsertedRows("artists") = artist_df.rows
            /\ db.tables.artists.rows = orig.tables.artists.rows \o artist_df.rows
            /\ Len(db.tables.artists.rows) = Len(orig.tables.artists.rows) + n

\* 4500 rows into an empty artists table: statements of 2000, 2000 and 500
C1_Witness ==
    /\ LoadReturned
    /\ Len(artist_df.rows) = 2 * ChunkSize + ChunkSize \div 4
    /\ orig.tables.artists.exists
    /\ orig.tables.artists.rows = <<>>
    /\ Len(inserts) = 3
    /\ Len(inserts[1].rows) = ChunkSize
    /\ Len(inserts[2].rows) = ChunkSize
    /\ Len(inserts[3].rows) = ChunkSize \div 4
    /\ Len(db.tables.artists.rows) = 2 * ChunkSize + ChunkSize \div 4

\* the load failed in batch sql.i + 1, after sql.i batches were inserted
FailedAfterFirstBatch == pc = "failed" /\ sql.phase = "aborted" /\ sql.i >= 1

BatchesBefore == SubSeq(ToSqlRows(artist_df), 1, sql.i * ChunkSize)

\* C2 as stated: when a load fails during batch k > 1, the rows of batches
\* 1..k-1 remain in the destination; no transaction spans the batches.
C2_EarlierBatchesRemain ==
    FailedAfterFirstBatch =>
        db.tables.artists.rows = sql.saved \o BatchesBefore

\* C2 amended: to_sql runs all batches of one load in one transaction. When
\* the load fails during batch k > 1 the transaction is rolled back: on a
\* transactional storage engine the destination holds exactly the rows it
\* held before the load and none of batches 1..k-1; only on a storage engine
\* without transactions do the rows of batches 1..k-1 remain.
C2_RolledBack ==
    FailedAfterFirstBatch =>
        /\ sql.saved = orig.tables.artists.rows
        /\ db.transactional => db.tables.artists.rows = sql.saved
        /\ ~db.transactional => db.tables.artists.rows = sql.saved \o BatchesBefore

\* a load into a table of one row fails in its third batch and is rolled back
C2_Witness ==
    /\ FailedAfterFirstBatch
    /\ sql.i = 2
    /\ db.transactional
    /\ Len(inserts) = 2
    /\ orig.tables.artists.rows = <<OldRow>>
    /\ db.tables.artists.rows = <<OldRow>>

----------------------------------------------------------------------------
(* Properties of the schema *)

\* C3: a call with drop_first = False changes nothing about a table that
\* exists, and right after a call with drop_first = True it changes nothing
\* at all: both tables, their schema and their rows stay as the first call
\* left them.
C3_CreateIsIdempotent ==
    LET m == Len(call.drop_first)
    IN  (call.op = "db_create_tables" /\ m >= 1 /\ ~call.drop_first[m]) =>
            /\ \A t \in TableNames :
                  orig.tables[t].exists => db.tables[t] = orig.tables[t]
            /\ (m >= 2 /\ call.drop_first[m - 1]) => db.tables = orig.tables
            /\ \A t \in TableNames : db.tables[t].exists

\* drop_first = True and then drop_first = False, on tables that exist
C3_Witness ==
    /\ call.op = "db_create_tables"
    /\ call.drop_first = <<TRUE, FALSE>>
    /\ db.tables = [t \in TableNames |-> Created(Declared(t))]
    /\ db.tables = orig.tables

----------------------------------------------------------------------------
(* Properties of main *)

Executed == SelectSeq(steps, LAMBDA x : x # "raised")

\* C4: the steps of a run are made in main's order, each after all earlier
\* ones returned; a step that raises ends the run, no step follows it; and
\* what the artists load committed stays when the albums load raises.
C4_LinearPathAbort ==
    call.op = "main" =>
        /\ IsPrefix(Executed, MainOrder)
        /\ \A n \in 1..Len(steps) : steps[n] = "raised" => n = Len(steps)
        /\ pc = "failed" <=> (steps # <<>> /\ steps[Len(steps)] = "raised")
        /\ pc = "done" <=> steps = MainOrder
        /\ pc \in Range(MainOrder) => pc = MainOrder[Len(steps) + 1]
        /\ pc \in Range(MainOrder) \cup {"done", "failed"}
        /\ (pc = "failed" /\ Len(Executed) >= Position("load_to_db_artists")) =>
              /\ db.tables.artists.rows = ToSqlRows(artist_df)
              /\ Len(inserts) >= (Len(artist_df.rows) + ChunkSize - 1) \div ChunkSize

\* the albums load raises after the artists load committed two rows
C4_Witness ==
    /\ call.op = "main"
    /\ pc = "failed"
    /\ Len(steps) = Len(MainOrder)
    /\ sql.phase = "aborted"
    /\ Len(db.tables.artists.rows) = 2
    /\ db.tables.albums.rows = <<>>

RunEnded == call.op = "main" /\ pc \in {"done", "failed"}

\* C5 as stated: the run acquires the connection once, and when the run ends
\* every connection that was opened has been released.
C5_AcquiredOnceAndReleased ==
    (RunEnded /\ conn.engine) =>
        /\ conn.acquired = 1
        /\ conn.checked_out = 0
        /\ conn.open = 0

C10_RowsOfOneRun ==
    (call.op = "main" /\ pc = "done") =>
        /\ db.tables.artists = WithRows(Created(ArtistsSchema), files.artists.rows)
        /\ db.tables.albums = WithRows(Created(AlbumsSchema), files.albums.rows)

\* the second run in a row that succeeded, with rows in both files
C10_Witness ==
    /\ call.op = "main"
    /\ pc = "done"
    /\ call.completed = 1
    /\ runs = 2
    /\ Len(files.artists.rows) = 2
    /\ Len(files.albums.rows) = 1
    /\ Len(db.tables.artists.rows) = 2
    /\ Len(db.tables.albums.rows) = 1

====
